---- MODULE Spec2Model ----
(***************************************************************************)
(* Model of hello-pi-zero: the tick loop of src/main.rs (sensor read and   *)
(* cadence delay joined by try_join!, then clear/draw/flush on the         *)
(* SH1106 display), the DS18B20 reader of src/onewire.rs, the forecast     *)
(* projection of src/met.rs, and the forecast cache, which is described    *)
(* in spec.md but whose code is not among the files under src/.            *)
(*                                                                         *)
(* Time is in milliseconds.  Temperatures are f32 values; every f32 in     *)
(* the binade [16, 32) is an integer multiple of 2^-19, so such a value    *)
(* is represented by that integer ("units").                               *)
(***************************************************************************)
EXTENDS Integers, Sequences, FiniteSets, TLC

\* ------------------------------------------------------------------ bounds
\* The virtual clock stops advancing past this instant (ms).
MaxClock == 3400
\* Longest forecast document and largest n in the projection specification.
MaxLen == 3
MaxN == 3

\* ------------------------------------------------------- program constants
\* let sleep_duration = time::Duration::from_millis(1000);
sleep_duration == 1000
\* The f32 nearest to the literal 0.1, in multiples of 2^-27.
F32_0_1 == 13421773
\* The horizon the cache asks of next_n_hours.
Horizon == 48

\* ------------------------------------------------------------- environment
\* Contents of the device node, in milli-degrees: values of the DS18B20's
\* 1/16 degree grid around room temperature, and two off-grid values that are
\* nominally exactly 0.1 degree apart from 20000.
DeviceMilli == {19900, 19937, 20000, 20062, 20100, 20187}
\* Time the kernel takes to answer the read of the device node.
SensorLatencies == {200, 1200}
\* Time an HTTP round trip takes.
FetchLatencies == {300, 1500}
\* The server's expires header, as an offset from the arrival of the response.
ExpiryOffsets == {0, 1900}

Sample(t, v) == [time |-> t, air_temperature |-> v]
\* Decoded forecast documents the server may return (the second one is not in
\* chronological order and has a sample at a tick boundary).
Documents ==
    { << Sample(1000, 5), Sample(2000, 6), Sample(4000, 7) >>,
      << Sample(3000, 9), Sample(1000, 8) >> }

\* ---------------------------------------------------------------- helpers
Min(a, b) == IF a < b THEN a ELSE b
Max(a, b) == IF a > b THEN a ELSE b

\* ------------------------------------------------------------ f32 arithmetic
\* One degree in units of 2^-19.
F32Unit == 2^19

\* a / b for a >= 0, b > 0 rounded to nearest, ties to even (IEEE 754 default).
DivRound(a, b) ==
    LET q == a \div b
        r == a % b
    IN  IF 2 * r > b \/ (2 * r = b /\ q % 2 = 1) THEN q + 1 ELSE q

\* content.trim().parse::<f32>()? / 1000.0 for an integer content m with
\* 16000 <= m < 32000: m is exact in f32, the quotient is correctly rounded
\* to 24 significant bits, i.e. to a multiple of 2^-19.
\* m * 2^19 / 1000 = m * 2^16 / 125.
ParseDiv1000(m) == DivRound(m * (F32Unit \div 8), 1000 \div 8)

\* home_temperature - last_temperature: for two values of [16, 32) the exact
\* difference is a multiple of 2^-19 below 16, hence representable: no rounding.
F32Sub(a, b) == a - b

\* The up arrow for any rise at all.
GtPointOne_any(d) == d > 0

\* difference > 0.1 and difference < -0.1, the literal being an f32.
GtPointOne(d) == d * 2^8 > F32_0_1
LtMinusPointOne(d) == d * 2^8 < -F32_0_1

\* home_temperature as u8: truncation toward zero, saturating.
AsU8(x) ==
    LET t == IF x >= 0 THEN x \div F32Unit ELSE -((-x) \div F32Unit)
    IN  IF t < 0 THEN 0 ELSE IF t > 255 THEN 255 ELSE t

\* ------------------------------------------------------------ met::Response
RECURSIVE FilterFuture_ge(_, _)
\* The filter with >= in place of >.
FilterFuture_ge(ts, dt) ==
    IF ts = << >> THEN << >>
    ELSE IF Head(ts).time >= dt
         THEN << Head(ts) >> \o FilterFuture_ge(Tail(ts), dt)
         ELSE FilterFuture_ge(Tail(ts), dt)

RECURSIVE FilterFuture(_, _)
\* .iter().filter(|e| e.time > dt)
FilterFuture(ts, dt) ==
    IF ts = << >> THEN << >>
    ELSE IF Head(ts).time > dt
         THEN << Head(ts) >> \o FilterFuture(Tail(ts), dt)
         ELSE FilterFuture(Tail(ts), dt)

\* .take(n)
Take(s, n) == SubSeq(s, 1, Min(n, Len(s)))

\* .map(|e| e.data.instant.details.air_temperature).collect()
MapTemperature(s) == [i \in 1..Len(s) |-> s[i].air_temperature]

\* Response::next_n_hours; the result is always Ok.
next_n_hours(doc, dt, n) == MapTemperature(Take(FilterFuture(doc, dt), n))

\* ------------------------------------------------------------------ Digits
\* Digits::draw: the two sprites selected for a u8.
DigitSprites(digits) ==
    LET c == IF digits > 99 THEN 99 ELSE digits
    IN  << c \div 10, c % 10 >>

\* ------------------------------------------------------------------- state
VARIABLES
    clock,              \* virtual time, ms since process start
    tick,               \* number of the loop iteration in progress (0: none yet)
    pc,                 \* position of main: loop, join, the render steps, aborted
    failure,            \* the error that ended the process, or "none"
    sensor,             \* State::home_temperature future of this tick
    forecast,           \* ForecastCache.get future of this tick
    sleep,              \* fallible_sleep future of this tick
    inner,              \* read guards held on State.inner (RwLock<InnerState>)
    cache,              \* forecast cache slot: << >> or << entry >>
    cacheLock,          \* reader-writer lock guarding the cache slot
    home_temperature,   \* sensor result obtained from the join
    last_temperature,   \* let mut last_temperature
    difference,         \* let difference
    fb,                 \* framebuffer of the display driver
    shown,              \* what the panel shows: the last flushed framebuffer
    tickStart,          \* clock at which the current tick's futures were created
    sensorReads,        \* number of reads of the device node started
    fetchCount,         \* number of HTTP requests sent
    hitCount,           \* number of gets answered from the stored entry
    clearCount,         \* number of display.clear() calls
    flushCount,         \* number of successful display.flush() calls in the loop
    previous,           \* last_temperature as it was before the latest update
    proj                \* one application of next_n_hours: input and output

branches == << sensor, forecast, sleep, inner, cacheLock >>
display == << fb, shown, clearCount, flushCount >>
temps == << home_temperature, last_temperature, difference, previous >>
counters == << sensorReads, fetchCount, hitCount >>
vars == << clock, tick, pc, failure, branches, cache, temps, display,
           tickStart, counters, proj >>

Blank == [huge |-> << >>, down |-> FALSE, up |-> FALSE,
          small |-> << >>, danger |-> FALSE]
Idle == [st |-> "idle", due |-> 0, lat |-> 0]
Unlocked == [readers |-> 0, writer |-> FALSE]

NoProjection == [st |-> "none", doc |-> << >>, dt |-> 0, n |-> 0, out |-> << >>]

\* State of main when it reaches `loop` for the first time: the display was
\* initialised and flushed blank, the sensor was found, last_temperature = 20.0,
\* and nothing has been fetched.
Booted ==
    /\ previous = 20 * F32Unit
    /\ clock = 0
    /\ tick = 0
    /\ pc = "loop"
    /\ failure = "none"
    /\ sensor = [Idle EXCEPT !.st = "idle"] @@ [value |-> 0]
    /\ forecast = Idle @@ [now |-> 0, series |-> << >>]
    /\ sleep = Idle
    /\ inner = 0
    /\ cache = << >>
    /\ cacheLock = Unlocked
    /\ home_temperature = 0
    /\ last_temperature = 20 * F32Unit
    /\ difference = 0
    /\ fb = Blank
    /\ shown = Blank
    /\ tickStart = 0
    /\ sensorReads = 0
    /\ fetchCount = 0
    /\ hitCount = 0
    /\ clearCount = 0
    /\ flushCount = 0

Init == Booted /\ proj = NoProjection

\* --------------------------------------------------------- forecast cache
\* The freshness test with <= in place of <.
CacheFresh_le(c, now) == c # << >> /\ now <= c[1].expires_at

\* Step 1 of ForecastCache.get: an entry exists and now < entry.expires_at.
CacheFresh(c, now) == c # << >> /\ now < c[1].expires_at

\* The future ForecastCache.get(now) after its first poll: a hit takes the lock
\* shared and is answered from the entry, a miss takes it exclusively and sends
\* one request.
ForecastStart(c, now, lat) ==
    IF CacheFresh(c, now)
    THEN [st |-> "hit", due |-> now, lat |-> 0, now |-> now, series |-> << >>]
    ELSE [st |-> "fetching", due |-> now + lat, lat |-> lat, now |-> now,
          series |-> << >>]

\* The refresh taking the lock shared instead of exclusive.
LockAfterStart_shared(c, now) == [readers |-> 1, writer |-> FALSE]

\* The lock after the first poll of get.
LockAfterStart(c, now) ==
    IF CacheFresh(c, now) THEN [readers |-> 1, writer |-> FALSE]
    ELSE [readers |-> 0, writer |-> TRUE]

\* ------------------------------------------------------------------ main
\* try_join!(...)? returning Err: the remaining futures are dropped (their lock
\* guards with them) and main returns the error.
Drop(f) == IF f.st \in {"done", "failed"} THEN f ELSE [f EXCEPT !.st = "dropped"]

\* The error of the join or of a draw is recorded and main renders anyway.
Abort_render(kind) ==
    /\ pc' = "clear"
    /\ failure' = kind
    /\ inner' = 0
    /\ cacheLock' = Unlocked

\* The error is recorded and the loop starts over.
Abort_retry(kind) ==
    /\ pc' = "loop"
    /\ failure' = kind
    /\ inner' = 0
    /\ cacheLock' = Unlocked

Abort(kind) ==
    /\ pc' = "aborted"
    /\ failure' = kind
    /\ inner' = 0
    /\ cacheLock' = Unlocked

\* First poll of try_join!: the three futures are created and polled in turn
\* at the same instant.
StartTick(slat, flat) ==
    /\ pc = "loop"
    /\ clock + sleep_duration <= MaxClock
    /\ pc' = "join"
    /\ tick' = tick + 1
    /\ tickStart' = clock
    /\ sensor' = [st |-> "reading", due |-> clock + slat, lat |-> slat, value |-> 0]
    /\ inner' = inner + 1
    /\ sensorReads' = sensorReads + 1
    /\ forecast' = ForecastStart(cache, clock, flat)
    /\ cacheLock' = LockAfterStart(cache, clock)
    /\ fetchCount' = IF CacheFresh(cache, clock) THEN fetchCount ELSE fetchCount + 1
    /\ sleep' = [st |-> "pending", due |-> clock + sleep_duration,
                 lat |-> sleep_duration]
    /\ UNCHANGED << clock, failure, cache, temps, display, hitCount, proj >>

\* Ds18b20::read returning Ok: the read guard on State.inner is released.
SensorOk(m) ==
    /\ pc = "join"
    /\ sensor.st = "reading"
    /\ clock = sensor.due
    /\ sensor' = [sensor EXCEPT !.st = "done", !.value = ParseDiv1000(m)]
    /\ inner' = inner - 1
    /\ UNCHANGED << clock, tick, pc, failure, forecast, sleep, cacheLock, cache,
                    temps, display, tickStart, counters, proj >>

\* Ds18b20::read failing at File::open, read_to_string or parse.
SensorFail(kind) ==
    /\ pc = "join"
    /\ sensor.st = "reading"
    /\ clock = sensor.due
    /\ sensor' = [sensor EXCEPT !.st = "failed"]
    /\ forecast' = Drop(forecast)
    /\ sleep' = Drop(sleep)
    /\ Abort(kind)
    /\ UNCHANGED << clock, tick, cache, temps, display, tickStart, counters, proj >>

\* time::sleep(duration) elapsing; fallible_sleep returns Ok(()).
SleepDone ==
    /\ pc = "join"
    /\ sleep.st = "pending"
    /\ clock = sleep.due
    /\ sleep' = [sleep EXCEPT !.st = "done"]
    /\ UNCHANGED << clock, tick, pc, failure, sensor, forecast, inner, cacheLock,
                    cache, temps, display, tickStart, counters, proj >>

\* Cache hit: project the stored document and release the shared lock.
ForecastServe ==
    /\ pc = "join"
    /\ forecast.st = "hit"
    /\ forecast' = [forecast EXCEPT !.st = "done",
                       !.series = next_n_hours(cache[1].doc, forecast.now, Horizon)]
    /\ cacheLock' = [cacheLock EXCEPT !.readers = @ - 1]
    /\ hitCount' = hitCount + 1
    /\ UNCHANGED << clock, tick, pc, failure, sensor, sleep, inner, cache, temps,
                    display, tickStart, sensorReads, fetchCount, proj >>

\* The response arrived with a well-formed expires header and body: replace the
\* entry, release the exclusive lock, project the new document.
FetchOk(doc, off) ==
    /\ pc = "join"
    /\ forecast.st = "fetching"
    /\ clock = forecast.due
    /\ cache' = << [doc |-> doc, expires_at |-> clock + off] >>
    /\ cacheLock' = Unlocked
    /\ forecast' = [forecast EXCEPT !.st = "done",
                       !.series = next_n_hours(doc, forecast.now, Horizon)]
    /\ UNCHANGED << clock, tick, pc, failure, sensor, sleep, inner, temps,
                    display, tickStart, counters, proj >>

\* A failed refresh that clears the slot.
FetchFail_clear(kind) ==
    /\ pc = "join"
    /\ forecast.st = "fetching"
    /\ clock = forecast.due
    /\ forecast' = [forecast EXCEPT !.st = "failed"]
    /\ sensor' = Drop(sensor)
    /\ sleep' = Drop(sleep)
    /\ Abort(kind)
    /\ cache' = << >>
    /\ UNCHANGED << clock, tick, temps, display, tickStart, counters, proj >>

\* The fetch path failing: request, missing header, malformed header, decode.
FetchFail(kind) ==
    /\ pc = "join"
    /\ forecast.st = "fetching"
    /\ clock = forecast.due
    /\ forecast' = [forecast EXCEPT !.st = "failed"]
    /\ sensor' = Drop(sensor)
    /\ sleep' = Drop(sleep)
    /\ Abort(kind)
    /\ UNCHANGED << clock, tick, cache, temps, display, tickStart, counters, proj >>

\* A join that does not wait for the forecast.
JoinAllDone_noForecast == sensor.st = "done" /\ sleep.st = "done"

\* A join that does not wait for the delay.
JoinAllDone_noSleep == sensor.st = "done" /\ forecast.st = "done"

\* try_join! is ready with Ok once every future has returned Ok.
JoinAllDone == sensor.st = "done" /\ forecast.st = "done" /\ sleep.st = "done"

\* let (home_temperature, _) = try_join!(...)?;
JoinOk ==
    /\ pc = "join"
    /\ JoinAllDone
    /\ pc' = "clear"
    /\ home_temperature' = sensor.value
    /\ UNCHANGED << clock, tick, failure, branches, cache, last_temperature,
                    difference, previous, display, tickStart, counters, proj >>

\* The instants at which a pending future becomes ready.
PendingDues ==
    (IF sensor.st = "reading" THEN {sensor.due} ELSE {}) \cup
    (IF forecast.st = "fetching" THEN {forecast.due} ELSE {}) \cup
    (IF sleep.st = "pending" THEN {sleep.due} ELSE {})

\* The runtime parks main until the earliest pending future is ready.
Advance ==
    /\ pc = "join"
    /\ forecast.st # "hit"
    /\ PendingDues # {}
    /\ \A d \in PendingDues : d > clock
    /\ \E d \in PendingDues :
          /\ \A e \in PendingDues : d <= e
          /\ d <= MaxClock
          /\ clock' = d
    /\ UNCHANGED << tick, pc, failure, branches, cache, temps, display,
                    tickStart, counters, proj >>

\* ------------------------------------------------------------------ render
\* A draw error that is recorded while main goes on to the flush.
DrawErr_flush ==
    /\ pc' = "flush"
    /\ failure' = "DisplayError"
    /\ UNCHANGED << clock, tick, branches, cache, temps, shown,
                    clearCount, flushCount, tickStart, counters, proj >>

\* A draw call returning Err: `?` returns it from main.
DrawErr ==
    /\ Abort("DisplayError")
    /\ UNCHANGED << clock, tick, sensor, forecast, sleep, cache, temps, shown,
                    clearCount, flushCount, tickStart, counters, proj >>

\* A draw call returning Ok, main moving on to `next`.
DrawOk(next) ==
    /\ pc' = next
    /\ UNCHANGED << clock, tick, failure, branches, cache, temps, shown,
                    clearCount, flushCount, tickStart, counters, proj >>

\* display.clear(); let difference = ...; last_temperature = home_temperature;
Clear ==
    /\ pc = "clear"
    /\ fb' = Blank
    /\ clearCount' = clearCount + 1
    /\ difference' = F32Sub(home_temperature, last_temperature)
    /\ last_temperature' = home_temperature
    /\ previous' = last_temperature
    /\ pc' = "draw_huge"
    /\ UNCHANGED << clock, tick, failure, branches, cache, home_temperature,
                    shown, flushCount, tickStart, counters, proj >>

\* huge.draw(home_temperature as u8, &mut display)?
DrawHuge ==
    /\ pc = "draw_huge"
    /\ fb' = [fb EXCEPT !.huge = DigitSprites(AsU8(home_temperature))]
    /\ DrawOk("draw_down")

\* Digits::draw failing at its first (k = 0) or second (k = 1) image.
DrawHugeFail(k) ==
    /\ pc = "draw_huge"
    /\ fb' = [fb EXCEPT !.huge = SubSeq(DigitSprites(AsU8(home_temperature)), 1, k)]
    /\ DrawErr

\* if difference < -0.1 { indicators.draw_down(&mut display)?; }
DrawDown ==
    /\ pc = "draw_down"
    /\ fb' = [fb EXCEPT !.down = LtMinusPointOne(difference)]
    /\ DrawOk("draw_up")

DrawDownFail ==
    /\ pc = "draw_down"
    /\ LtMinusPointOne(difference)
    /\ fb' = fb
    /\ DrawErr

\* if difference > 0.1 { indicators.draw_up(&mut display)?; }
DrawUp ==
    /\ pc = "draw_up"
    /\ fb' = [fb EXCEPT !.up = GtPointOne(difference)]
    /\ DrawOk("draw_small")

DrawUpFail ==
    /\ pc = "draw_up"
    /\ GtPointOne(difference)
    /\ fb' = fb
    /\ DrawErr

\* small.draw(72, &mut display)?
DrawSmall ==
    /\ pc = "draw_small"
    /\ fb' = [fb EXCEPT !.small = DigitSprites(72)]
    /\ DrawOk("draw_danger")

DrawSmallFail(k) ==
    /\ pc = "draw_small"
    /\ fb' = [fb EXCEPT !.small = SubSeq(DigitSprites(72), 1, k)]
    /\ DrawErr

\* gfx::image::Image::new(&danger, Point::new(100, 40)).draw(&mut display)?
DrawDanger ==
    /\ pc = "draw_danger"
    /\ fb' = [fb EXCEPT !.danger = TRUE]
    /\ DrawOk("flush")

DrawDangerFail ==
    /\ pc = "draw_danger"
    /\ fb' = fb
    /\ DrawErr

\* display.flush() returning Ok: the panel shows the framebuffer; loop again.
Flush ==
    /\ pc = "flush"
    /\ shown' = fb
    /\ flushCount' = flushCount + 1
    /\ pc' = "loop"
    /\ UNCHANGED << clock, tick, failure, branches, cache, temps, fb,
                    clearCount, tickStart, counters, proj >>

\* display.flush() returning Err: unwrap panics and the process ends.
FlushFail ==
    /\ pc = "flush"
    /\ Abort("panic")
    /\ UNCHANGED << clock, tick, sensor, forecast, sleep, cache, temps, display,
                    tickStart, counters, proj >>

\* ------------------------------------------------------------ specification
IoErrors == {"open", "read_to_string", "parse"}
FetchErrors == {"request", "header_missing", "header_malformed", "decode"}

Next ==
    \/ \E slat \in SensorLatencies, flat \in FetchLatencies : StartTick(slat, flat)
    \/ \E m \in DeviceMilli : SensorOk(m)
    \/ \E k \in IoErrors : SensorFail(k)
    \/ SleepDone
    \/ ForecastServe
    \/ \E doc \in Documents, off \in ExpiryOffsets : FetchOk(doc, off)
    \/ \E k \in FetchErrors : FetchFail(k)
    \/ JoinOk
    \/ Advance
    \/ Clear
    \/ DrawHuge
    \/ \E k \in {0, 1} : DrawHugeFail(k)
    \/ DrawDown
    \/ DrawDownFail
    \/ DrawUp
    \/ DrawUpFail
    \/ DrawSmall
    \/ \E k \in {0, 1} : DrawSmallFail(k)
    \/ DrawDanger
    \/ DrawDangerFail
    \/ Flush
    \/ FlushFail

Spec == Init /\ [][Next]_vars

\* ------------------------------------------- specification of the projection
\* Sample times and temperatures the projection is tried on.
ProjTimes == 0..2
ProjTemps == {5, 6}
ProjSamples == {Sample(t, v) : t \in ProjTimes, v \in ProjTemps}
\* Every document of at most MaxLen samples, in any order of time.
ProjDocuments == UNION {[1..l -> ProjSamples] : l \in 0..MaxLen}

\* Some document, some instant and some n, before next_n_hours is applied.
InitProj ==
    /\ Booted
    /\ \E doc \in ProjDocuments, dt \in ProjTimes, n \in 0..MaxN :
          proj = [st |-> "input", doc |-> doc, dt |-> dt, n |-> n, out |-> << >>]

\* let out = doc.next_n_hours(dt, n)?;
Project ==
    /\ proj.st = "input"
    /\ proj' = [proj EXCEPT !.st = "done", !.out = next_n_hours(proj.doc, proj.dt, proj.n)]
    /\ UNCHANGED << clock, tick, pc, failure, branches, cache, temps, display,
                    tickStart, counters >>

NextProj == Project

SpecProj == InitProj /\ [][NextProj]_vars

\* ------------------------------------------------------------------ claims
\* Indices of the samples of doc that lie strictly after dt.
FutureIdx(doc, dt) == {i \in 1..Len(doc) : doc[i].time > dt}

\* C4 (projection correctness): next_n_hours(dt, n) has exactly
\* min(n, number of samples with time > dt) elements, and its j-th element is
\* the temperature of the j-th sample, in document order, whose time is
\* strictly greater than dt; a sample at dt is left out and a short result is
\* returned as it is.
C4_ProjectionCorrect ==
    proj.st = "done" =>
        LET fut == FutureIdx(proj.doc, proj.dt)
            k == IF proj.n < Cardinality(fut) THEN proj.n ELSE Cardinality(fut)
        IN  /\ Len(proj.out) = k
            /\ \A j \in 1..k :
                  \E i \in fut :
                      /\ Cardinality({h \in fut : h < i}) = j - 1
                      /\ proj.out[j] = proj.doc[i].air_temperature

\* A projection that dropped a sample at dt, kept a later one, skipped a past
\* one in between and came out shorter than n.
C4_Witness ==
    /\ proj.st = "done"
    /\ Len(proj.doc) = 3
    /\ proj.doc[1].time > proj.dt
    /\ proj.doc[2].time = proj.dt
    /\ proj.doc[3].time > proj.dt
    /\ proj.doc[3].time < proj.doc[1].time
    /\ Len(proj.out) = 2
    /\ proj.n = 3

RenderPcs == {"clear", "draw_huge", "draw_down", "draw_up", "draw_small",
              "draw_danger", "flush"}

\* C1 (expiry respect): every get is either a hit or one fetch; a get is a hit
\* (zero fetches, answered by projecting the stored document) only while its
\* now is before the stored expires_at, and a fetch is in flight only when the
\* slot is empty or now >= the stored expires_at.
C1_ExpiryRespect ==
    /\ fetchCount + hitCount + (IF forecast.st = "hit" THEN 1 ELSE 0) = tick
    /\ forecast.st = "hit" => cache # << >> /\ forecast.now < cache[1].expires_at
    /\ forecast.st = "fetching" =>
          cache = << >> \/ forecast.now >= cache[1].expires_at
    /\ (forecast.st = "done" /\ forecast.lat = 0) =>
          /\ cache # << >>
          /\ forecast.now < cache[1].expires_at
          /\ forecast.series = next_n_hours(cache[1].doc, forecast.now, Horizon)

\* A get exactly at the stored expires_at refetches, after an earlier get was
\* answered from the entry.
C1_Witness ==
    /\ hitCount >= 1
    /\ fetchCount = 2
    /\ forecast.st = "fetching"
    /\ cache # << >>
    /\ forecast.now = cache[1].expires_at

\* C2 (atomicity across join): in a tick where a joined operation failed, main
\* has returned that failure, no clear, draw or flush was issued for the tick
\* (the framebuffer is still the frame of the previous tick) and the reading
\* kept as last-known temperature is not the one of this tick.
C2_AtomicJoin ==
    /\ []((sensor.st = "failed" \/ forecast.st = "failed") =>
             /\ pc = "aborted"
             /\ failure \in IoErrors \cup FetchErrors
             /\ clearCount = tick - 1
             /\ flushCount = tick - 1
             /\ fb = shown
             /\ IF tick = 1 THEN last_temperature = 20 * F32Unit
                ELSE shown.huge = DigitSprites(AsU8(last_temperature)))
    /\ [][(sensor'.st = "failed" \/ forecast'.st = "failed") =>
             (temps' = temps /\ display' = display)]_vars

\* The forecast get failed after the sensor read of the same tick had
\* succeeded, in a tick that follows a rendered one.
C2_Witness ==
    /\ forecast.st = "failed"
    /\ sensor.st = "done"
    /\ sensor.value # last_temperature
    /\ tick = 2
    /\ shown # Blank

\* C3 (cache preservation on failure): a failure at any step of the fetch path
\* leaves the stored entry as it was, and is returned to the caller: the get
\* yields no series, stale or otherwise, and main ends with that failure.
C3_CachePreserved ==
    [][(forecast.st = "fetching" /\ forecast'.st = "failed") =>
          /\ cache' = cache
          /\ forecast'.series = << >>
          /\ failure' \in FetchErrors
          /\ pc' = "aborted"]_vars

\* A refresh of an expired entry failed at the body decode; the entry is still
\* stored.
C3_Witness ==
    /\ failure = "decode"
    /\ forecast.st = "failed"
    /\ cache # << >>
    /\ forecast.now >= cache[1].expires_at

\* C5 (abort is terminal): any failure moves main to aborted, and from aborted
\* nothing happens any more: no tick starts, no sensor read, fetch, clear, draw
\* or flush is issued and the failed operation is not retried.
C5_AbortTerminal ==
    [][/\ (failure' # "none") = (pc' = "aborted")
       /\ pc = "aborted" =>
             /\ pc' = "aborted"
             /\ failure' = failure
             /\ tick' = tick
             /\ sensorReads' = sensorReads
             /\ fetchCount' = fetchCount
             /\ hitCount' = hitCount
             /\ clearCount' = clearCount
             /\ flushCount' = flushCount
             /\ fb' = fb
             /\ shown' = shown]_vars

\* A failed flush ended the process in its second tick.
C5_Witness == pc = "aborted" /\ failure = "panic" /\ tick = 2

\* A frame as a successful render leaves it.
CompleteFrame(f) == Len(f.huge) = 2 /\ Len(f.small) = 2 /\ f.danger

\* C6 (no flush after a failure): once a tick has failed, also when a draw
\* failed after the clear, no flush is issued in that tick or later, so the
\* panel keeps the frame of the last successful flush (blank before the first).
C6_NoFlushAfterFailure ==
    /\ [](failure # "none" =>
             /\ flushCount = tick - 1
             /\ IF flushCount = 0 THEN shown = Blank ELSE CompleteFrame(shown))
    /\ [][(failure # "none" \/ failure' # "none") =>
             (shown' = shown /\ flushCount' = flushCount)]_vars

\* A draw failed after the framebuffer had been cleared and partly redrawn,
\* while the panel shows the frame of the previous tick.
C6_Witness ==
    /\ failure = "DisplayError"
    /\ clearCount = tick
    /\ flushCount >= 1
    /\ fb # shown
    /\ fb # Blank

\* A future of the current tick that has been started and has not finished.
Running(f) == f.st \in {"reading", "fetching", "hit", "pending"}

\* C7 (sequential ticks): the futures of a tick run only while main is in the
\* join, which begins only after the render of the previous tick was flushed;
\* a render happens at most once per tick, only after the sensor read and the
\* get of that tick succeeded, and at most one clear..flush sequence is open.
C7_SequentialTicks ==
    /\ []((Running(sensor) \/ Running(forecast) \/ Running(sleep)) => pc = "join")
    /\ [](pc = "join" => clearCount = tick - 1 /\ flushCount = tick - 1)
    /\ [](clearCount <= tick /\ flushCount <= clearCount /\ clearCount <= flushCount + 1)
    /\ [](pc \in RenderPcs => sensor.st = "done" /\ forecast.st = "done")
    /\ [][tick' # tick => (pc = "loop" /\ flushCount = tick /\ clearCount = tick)]_vars
    /\ [][clearCount' # clearCount => (clearCount = tick - 1 /\ flushCount = tick - 1)]_vars

\* The third tick has started after two complete renders.
C7_Witness == pc = "join" /\ tick = 3 /\ flushCount = 2 /\ Running(sensor)

Max3(a, b, c) == Max(a, Max(b, c))

C10_TrendIndicator ==
    /\ clearCount = 0 => last_temperature = 20 * F32Unit
    /\ (clearCount >= 1 /\ clearCount = tick) =>
          /\ last_temperature = sensor.value
          /\ clearCount = 1 => previous = 20 * F32Unit
    /\ pc \in {"draw_small", "draw_danger", "flush"} =>
          /\ fb.up = (10 * (sensor.value - previous) > F32Unit)
          /\ fb.down = (10 * (previous - sensor.value) > F32Unit)
          /\ ~(fb.up /\ fb.down)

\* Second tick: the reading fell by more than 0.1 from a first reading that
\* was itself above 20.0, and the down arrow is drawn.
C10_Witness ==
    /\ pc = "flush"
    /\ tick = 2
    /\ previous > 20 * F32Unit
    /\ fb.down
    /\ ~fb.up

====
